---- MODULE Spec2Model ----
(***************************************************************************)
(* A model of the two scripts of the repository:                          *)
(*                                                                         *)
(*   scoring.py  the online-inference handler: init() binds the module     *)
(*               globals `model` and `features`, run(raw_data) parses a    *)
(*               request, joins it with the feature store and predicts.    *)
(*   readme.py   the workflow / README generator.                          *)
(*                                                                         *)
(* Spec is the scoring handler: init() calls and MaxRequests run() calls,   *)
(* interleaved at the statements that read a global or call an external    *)
(* service.  SpecReadme is the generator.                                  *)
(***************************************************************************)
EXTENDS Integers, Sequences, FiniteSets, TLC

VARIABLES
    model,            \* scoring.py global `model` (Unbound before line 49)
    features,         \* scoring.py global `features` (Unbound before line 69)
    lookupRegistered, \* init_online_lookup(features, credential) has returned
    initPc,           \* where the init() call stands
    initTrace,        \* the steps the current init() call has performed
    delayedBy,        \* the functions that have executed time.sleep
    calls,            \* calls[r]: the frame (locals and position) of the r-th run() call
    platform,         \* readme.py: the operating system the script runs on (os.name)
    nb_config,        \* readme.py: notebooks_config.ini as cfg.read sees it
    files,            \* readme.py: .github/workflows, file name -> what is on disk
    wfNext,           \* readme.py: index of the notebook write_workflows handles next (0: not running)
    lastWrite,        \* readme.py: what the last write_notebook_workflow call did
    nb_files,         \* readme.py: the .ipynb files, notebook index -> what open and json.load give
    modified,         \* readme.py: how the last modify_notebooks call ended
    rd,               \* readme.py: the frame (locals and position) of the write_readme call
    readme            \* readme.py: the README.md files, path -> what is on disk

scoringVars == <<model, features, lookupRegistered, initPc, initTrace, delayedBy, calls>>

readmeVars == <<platform, nb_config, files, wfNext, lastWrite>>

tableVars == <<nb_files, modified, rd, readme>>

vars == <<model, features, lookupRegistered, initPc, initTrace, delayedBy, calls,
          platform, nb_config, files, wfNext, lastWrite,
          nb_files, modified, rd, readme>>

---------------------------------------------------------------------------
(* Bounds *)

\* Number of run() calls the host issues; they may overlap in any way.
MaxRequests == 2

Reqs == 1..MaxRequests

---------------------------------------------------------------------------
(* Python values *)

\* A module global that no assignment has bound yet: reading it raises NameError.
Unbound == "unbound"

\* The classifiers that pickle.load may find at model_output/clf.pkl.
ModelValues == {"clf_a", "clf_b"}

\* The feature retrieval specs that resolve_feature_retrieval_spec may return.
SpecValues == {"spec_a"}

\* Faulty variant: the name resolves even when nothing was assigned to it
\* (as with a module-level default binding).
NameBoundAlways(g) == TRUE

\* A name lookup succeeds only on a bound name (NameError otherwise).
NameBound(g) == g # Unbound

---------------------------------------------------------------------------
(* Request bodies.  A JSON document is given by its syntax and, for an      *)
(* object, its members in textual order; a member's value is a payload:     *)
(* a list of observations or one observation (a dict).  An                  *)
(* observation is its members <<column, value>> in textual order.           *)

ObsA1 == << <<"accountID", "A1">>, <<"transactionAmount", "42.0">> >>

ObsA2 == << <<"transactionAmount", "5.0">>, <<"accountID", "A2">>, <<"isProxyIP", "1">> >>

ObsNoKey == << <<"transactionAmount", "42.0">> >>

JsonList(items) == [shape |-> "list", items |-> items]

JsonDict(o) == [shape |-> "dict", items |-> <<o>>]

JsonObject(members) == [syntax |-> "object", members |-> members]

ReqInvalid == [syntax |-> "invalid", members |-> <<>>]

ReqNoData == JsonObject(<< <<"input", JsonList(<<ObsA1>>)>> >>)

ReqExample == JsonObject(<< <<"data", JsonList(<<ObsA1>>)>> >>)

ReqDict == JsonObject(<< <<"data", JsonDict(ObsA1)>> >>)

ReqTwo == JsonObject(<< <<"data", JsonList(<<ObsA1, ObsA2>>)>> >>)

ReqNoKey == JsonObject(<< <<"data", JsonList(<<ObsNoKey>>)>> >>)

ReqWide == JsonObject(<< <<"data", JsonList(<<ObsA2>>)>>, <<"trace", JsonList(<<>>)>> >>)

RawInputs == {ReqInvalid, ReqNoData, ReqExample, ReqDict, ReqTwo, ReqNoKey, ReqWide}

---------------------------------------------------------------------------
(* json.loads(raw_data)["data"]                                             *)

RECURSIVE KeysInOrder(_)
\* The keys of a dict built from members: each key once, at its first place.
KeysInOrder(ms) ==
    IF ms = <<>> THEN <<>>
    ELSE LET front == KeysInOrder(SubSeq(ms, 1, Len(ms) - 1))
             k == ms[Len(ms)][1]
         IN  IF \E i \in 1..Len(front) : front[i] = k THEN front ELSE Append(front, k)

HasKey(ms, k) == \E i \in 1..Len(ms) : ms[i][1] = k

\* A repeated key keeps its last value.
LastValue(ms, k) ==
    ms[CHOOSE i \in 1..Len(ms) : ms[i][1] = k /\ \A j \in (i + 1)..Len(ms) : ms[j][1] # k][2]

\* Faulty variant: json.loads(raw_data).get("data", []) raises on malformed
\* text only.
JsonFaultLenient(raw) == IF raw.syntax = "invalid" THEN "JSONDecodeError" ELSE ""

\* The fault of json.loads(raw_data)["data"], "" when it yields a value:
\* malformed text, or an object without the key.
JsonFault(raw) ==
    CASE raw.syntax = "invalid" -> "JSONDecodeError"
      [] ~HasKey(raw.members, "data") -> "KeyError"
      [] OTHER -> ""

\* The value of the data member (an empty list stands for a missing one,
\* which json.loads(raw_data)["data"] never yields).
JsonData(raw) ==
    IF HasKey(raw.members, "data") THEN LastValue(raw.members, "data") ELSE JsonList(<<>>)

---------------------------------------------------------------------------
(* pd.DataFrame(data, index=[0])                                            *)

NoFrame == [cols |-> <<>>, rows |-> <<>>]

\* One observation as a one-row frame: its keys in order, its values.
RowFrame(o) ==
    LET keys == KeysInOrder(o)
    IN  [cols |-> keys, rows |-> << [i \in 1..Len(keys) |-> LastValue(o, keys[i])] >>]

\* A list of n records has n rows, and the index [0] implies one: n > 1 is
\* a shape mismatch (ValueError).  An empty list gives the frame of the index
\* alone, one row without columns.
FrameFault(data) ==
    IF data.shape = "list" /\ Len(data.items) > 1 THEN "ValueError" ELSE ""

DataFrame(data) ==
    IF data.items = <<>> THEN [cols |-> <<>>, rows |-> << <<>> >>]
    ELSE RowFrame(data.items[1])

\* The number of observations a request's data field holds.
NumObs(raw) == IF JsonData(raw).shape = "dict" THEN 1 ELSE Len(JsonData(raw).items)

---------------------------------------------------------------------------
(* get_online_features(features, obs): the feature store                   *)

\* The feature columns the spec joins to an observation.
FeatureColumns(spec) == <<"avg_amount_7d">>

\* The materialised value of a feature for an account; NaN for an account
\* the store does not know.
FeatureValue(account, col) ==
    CASE account = "A1" /\ col = "avg_amount_7d" -> "10.5"
      [] account = "A2" /\ col = "avg_amount_7d" -> "3.25"
      [] OTHER -> "NaN"

ColumnIndex(cols, label) == CHOOSE i \in 1..Len(cols) : cols[i] = label

HasColumn(cols, label) == \E i \in 1..Len(cols) : cols[i] = label

AccountOf(frame, i) ==
    IF HasColumn(frame.cols, "accountID")
    THEN frame.rows[i][ColumnIndex(frame.cols, "accountID")]
    ELSE "none"

\* The observation augmented with the spec's feature columns, in join order.
get_online_features(spec, observation) ==
    LET fcols == FeatureColumns(spec)
    IN  [cols |-> observation.cols \o fcols,
         rows |-> [i \in 1..Len(observation.rows) |->
                     observation.rows[i] \o
                     [j \in 1..Len(fcols) |-> FeatureValue(AccountOf(observation, i), fcols[j])]]]

---------------------------------------------------------------------------
(* df.drop(["accountID"], axis="columns").to_numpy()                        *)

RECURSIVE Positions(_, _, _)
\* The positions i..Len(cols) whose label is not `label`, ascending.
Positions(cols, label, i) ==
    IF i > Len(cols) THEN <<>>
    ELSE (IF cols[i] = label THEN <<>> ELSE <<i>>) \o Positions(cols, label, i + 1)

\* Faulty variant: the first column is dropped, whatever its label.
DropFirstColumn(frame, label) ==
    [cols |-> Tail(frame.cols), rows |-> [i \in 1..Len(frame.rows) |-> Tail(frame.rows[i])]]

\* Faulty variant: a misspelt label with errors="ignore" drops nothing.
DropNothing(frame, label) == frame

\* Every column labelled `label` removed, the others in their order.
DropColumn(frame, label) ==
    LET keep == Positions(frame.cols, label, 1)
    IN  [cols |-> [k \in 1..Len(keep) |-> frame.cols[keep[k]]],
         rows |-> [i \in 1..Len(frame.rows) |->
                     [k \in 1..Len(keep) |-> frame.rows[i][keep[k]]]]]

\* to_numpy(): the rows as a plain two-dimensional array.
ToNumpy(frame) == frame.rows

---------------------------------------------------------------------------
(* model.predict(data)                                                      *)

Numeric(v) == v \in {"42.0", "5.0", "1", "10.5", "3.25"}

\* The number of features the classifier was fitted on.
NFeatures(m) == IF m = "clf_a" THEN 2 ELSE 3

\* predict raises on a row of the wrong width or with a value that is no
\* finite number.
PredictFault(m, arr) ==
    \E i \in 1..Len(arr) :
        \/ Len(arr[i]) # NFeatures(m)
        \/ \E j \in 1..Len(arr[i]) : ~Numeric(arr[i][j])

\* The label of one row.
PredictLabel(m, row) ==
    IF m = "clf_a"
    THEN (IF row[1] = "42.0" THEN 1 ELSE 0)
    ELSE (IF row[Len(row)] = "10.5" THEN 1 ELSE 0)

\* Faulty variant: one label per column of the first row (a transposed array).
PredictPerColumn(m, arr) == [j \in 1..Len(arr[1]) |-> PredictLabel(m, arr[1])]

\* One label per row.
Predict(m, arr) == [i \in 1..Len(arr) |-> PredictLabel(m, arr[i])]

\* result.tolist(): the labels as a plain list.
ToList(labels) == labels

---------------------------------------------------------------------------
(* The frame of one run() call *)

IdleCall ==
    [pc |-> "idle", raw_data |-> ReqInvalid, obs |-> NoFrame, df |-> NoFrame,
     data |-> <<>>, dataCols |-> <<>>, result |-> <<>>, fault |-> "", at |-> "",
     spec |-> Unbound, clf |-> Unbound, lookups |-> 0, predicts |-> 0]

Failed(c, step, fault) == [c EXCEPT !.pc = "failed", !.at = step, !.fault = fault]

\* Faulty variant: the remote lookup is called again after it failed.
LookupRetry(c) == [c EXCEPT !.lookups = @ + 1, !.spec = features]

\* get_online_features raised: the call was made once and the fault leaves run().
LookupFailure(c) ==
    Failed([c EXCEPT !.lookups = @ + 1, !.spec = features], "lookup", "LookupError")

\* Faulty variant: df is a module global, shared by the calls in flight.
SharedDf(r) == calls[CHOOSE q \in Reqs : calls[q].df # NoFrame].df

\* The frame the statement at line 95 reads: the call's own local df.
LocalDf(r) == calls[r].df

---------------------------------------------------------------------------
(* init() *)

InitScoring ==
    /\ model = Unbound
    /\ features = Unbound
    /\ lookupRegistered = FALSE
    /\ initPc = "idle"
    /\ initTrace = <<>>
    /\ delayedBy = {}
    /\ calls = [r \in Reqs |-> IdleCall]

\* init() is entered and lines 37-49 run: the model is unpickled and bound.
\* open / pickle.load raise when the file is missing or corrupt.
init_load_model ==
    /\ initPc \in {"idle", "done", "failed"}
    /\ \/ /\ initPc' = "failed"
          /\ initTrace' = <<>>
          /\ UNCHANGED model
       \/ /\ \E m \in ModelValues : model' = m
          /\ initPc' = "spec"
          /\ initTrace' = <<"load_model">>
    /\ UNCHANGED <<features, lookupRegistered, delayedBy, calls>>
    /\ UNCHANGED <<readmeVars, tableVars>>

\* Lines 56-69: credential, client, and the feature spec is resolved and bound.
init_resolve_spec ==
    /\ initPc = "spec"
    /\ \/ /\ initPc' = "failed"
          /\ UNCHANGED <<features, initTrace>>
       \/ /\ \E s \in SpecValues : features' = s
          /\ initPc' = "register"
          /\ initTrace' = Append(initTrace, "resolve_spec")
    /\ UNCHANGED <<model, lookupRegistered, delayedBy, calls>>
    /\ UNCHANGED <<readmeVars, tableVars>>

\* Faulty variant: init() goes from the registration straight to the trace,
\* without the delay.
init_online_lookup_unwaited ==
    /\ initPc = "register"
    /\ \/ /\ initPc' = "failed"
          /\ UNCHANGED <<lookupRegistered, initTrace>>
       \/ /\ lookupRegistered' = TRUE
          /\ initPc' = "log"
          /\ initTrace' = Append(initTrace, "init_online_lookup")
    /\ UNCHANGED <<model, features, delayedBy, calls>>
    /\ UNCHANGED <<readmeVars, tableVars>>

\* Line 72: init_online_lookup(features, credential).
init_online_lookup ==
    /\ initPc = "register"
    /\ \/ /\ initPc' = "failed"
          /\ UNCHANGED <<lookupRegistered, initTrace>>
       \/ /\ lookupRegistered' = TRUE
          /\ initPc' = "sleep"
          /\ initTrace' = Append(initTrace, "init_online_lookup")
    /\ UNCHANGED <<model, features, delayedBy, calls>>
    /\ UNCHANGED <<readmeVars, tableVars>>

\* Line 74: time.sleep(20) has elapsed.
init_sleep ==
    /\ initPc = "sleep"
    /\ delayedBy' = delayedBy \cup {"init"}
    /\ initTrace' = Append(initTrace, "sleep")
    /\ initPc' = "log"
    /\ UNCHANGED <<model, features, lookupRegistered, calls>>
    /\ UNCHANGED <<readmeVars, tableVars>>

\* Line 76: logging.info("Init complete"), and init() returns.
init_complete ==
    /\ initPc = "log"
    /\ initTrace' = Append(initTrace, "init_complete")
    /\ initPc' = "done"
    /\ UNCHANGED <<model, features, lookupRegistered, delayedBy, calls>>
    /\ UNCHANGED <<readmeVars, tableVars>>

---------------------------------------------------------------------------
(* run(raw_data) *)

\* Lines 79-87: run() is entered with a request body, the body is parsed,
\* its data field taken and the one-row observation frame built.
run_parse(r) ==
    /\ calls[r].pc = "idle"
    /\ \E raw \in RawInputs :
          LET c == [IdleCall EXCEPT !.raw_data = raw]
          IN  calls' = [calls EXCEPT ![r] =
                  IF JsonFault(raw) # "" THEN Failed(c, "json", JsonFault(raw))
                  ELSE IF FrameFault(JsonData(raw)) # ""
                       THEN Failed(c, "frame", FrameFault(JsonData(raw)))
                  ELSE [c EXCEPT !.pc = "lookup", !.obs = DataFrame(JsonData(raw))]]
    /\ UNCHANGED <<model, features, lookupRegistered, initPc, initTrace, delayedBy>>
    /\ UNCHANGED <<readmeVars, tableVars>>

\* Lines 88-92: df = get_online_features(features, obs).  Reading the global
\* raises NameError before the call when init() has not bound it; the remote
\* lookup may fail.
run_lookup(r) ==
    /\ calls[r].pc = "lookup"
    /\ IF ~NameBound(features)
       THEN calls' = [calls EXCEPT ![r] = Failed(@, "lookup", "NameError")]
       ELSE \/ calls' = [calls EXCEPT ![r] = LookupFailure(@)]
            \/ calls' = [calls EXCEPT ![r] =
                   [@ EXCEPT !.lookups = @ + 1, !.spec = features, !.pc = "predict",
                             !.df = get_online_features(features, calls[r].obs)]]
    /\ UNCHANGED <<model, features, lookupRegistered, initPc, initTrace, delayedBy>>
    /\ UNCHANGED <<readmeVars, tableVars>>

\* Lines 95-96: the accountID column is dropped (KeyError when the frame has
\* none), the rest becomes an array, and the classifier predicts on it.
run_predict(r) ==
    /\ calls[r].pc = "predict"
    /\ LET frame == LocalDf(r)
           kept == DropColumn(frame, "accountID")
           arr == ToNumpy(kept)
           c == [calls[r] EXCEPT !.data = arr, !.dataCols = kept.cols]
       IN  calls' = [calls EXCEPT ![r] =
               IF ~HasColumn(frame.cols, "accountID") THEN Failed(@, "drop", "KeyError")
               ELSE IF ~NameBound(model) THEN Failed(c, "predict", "NameError")
               ELSE IF PredictFault(model, arr)
                    THEN Failed([c EXCEPT !.clf = model, !.predicts = @ + 1],
                                "predict", "ValueError")
               ELSE [c EXCEPT !.clf = model, !.predicts = @ + 1,
                              !.result = Predict(model, arr), !.pc = "return"]]
    /\ UNCHANGED <<model, features, lookupRegistered, initPc, initTrace, delayedBy>>
    /\ UNCHANGED <<readmeVars, tableVars>>

\* Lines 97-98: return result.tolist().
run_return(r) ==
    /\ calls[r].pc = "return"
    /\ calls' = [calls EXCEPT ![r] = [@ EXCEPT !.pc = "done", !.result = ToList(@)]]
    /\ UNCHANGED <<model, features, lookupRegistered, initPc, initTrace, delayedBy>>
    /\ UNCHANGED <<readmeVars, tableVars>>

---------------------------------------------------------------------------
(* readme.py: text files.  A text is a sequence of tokens: LF and CR are    *)
(* the line-end characters, every other token is a run of other characters. *)

LF == "\n"

CR == "\r"

\* Faulty variant: the bytes as open(path, "rb") gives them.
BinaryRead(bytes) == bytes

RECURSIVE TextRead(_)
\* What f.read() gives for a file opened with open(path, "r"): universal
\* newlines, CR LF and a lone CR both read as LF.
TextRead(bytes) ==
    IF bytes = <<>> THEN <<>>
    ELSE IF Head(bytes) = CR
         THEN <<LF>> \o TextRead(IF Len(bytes) >= 2 /\ bytes[2] = LF
                                 THEN SubSeq(bytes, 3, Len(bytes))
                                 ELSE Tail(bytes))
    ELSE <<Head(bytes)>> \o TextRead(Tail(bytes))

RECURSIVE TextWrite(_, _)
\* What f.write(text) puts on disk for a file opened with open(path, "w"):
\* every LF becomes os.linesep, which is CR LF on nt and LF on posix.
TextWrite(text, os) ==
    IF text = <<>> THEN <<>>
    ELSE (IF Head(text) = LF /\ os = "nt" THEN <<CR, LF>> ELSE <<Head(text)>>)
         \o TextWrite(Tail(text), os)

\* A file of the workflows directory: absent, or its content on disk.
Missing == [exists |-> FALSE, bytes |-> <<>>]

OnDisk(bytes) == [exists |-> TRUE, bytes |-> bytes]

---------------------------------------------------------------------------
(* readme.py: constants and the notebooks of the tree *)

ENABLE_MANUAL_CALLING == TRUE

NOT_TESTED_NOTEBOOKS ==
    {"datastore", "mlflow-model-local-inference-test", "multicloud-configuration",
     "debug-online-endpoints-locally-in-visual-studio-code",
     "train-hyperparameter-tune-with-sklearn",
     "train-hyperparameter-tune-deploy-with-keras",
     "train-hyperparameter-tune-deploy-with-tensorflow", "interactive_data_wrangling",
     "mlflow_sdk_online_endpoints_progresive", "mlflow_sdk_online_endpoints",
     "mlflow_sdk_web_service", "scoring_to_mlmodel", "track_with_databricks_deploy_aml",
     "model_management", "run_history", "keras_mnist_with_mlflow",
     "logging_and_customizing_models", "xgboost_classification_mlflow",
     "xgboost_nested_runs", "xgboost_service_principal", "using_mlflow_rest_api",
     "yolov5/tutorial"}

NOT_SCHEDULED_NOTEBOOKS == {}

BRANCH == "main"

\* A notebook of the tree: its directory, segment by segment, and the name
\* of its file without ".ipynb".
NbAutoml == [folder |-> <<"jobs", "automl-nlp">>, name |-> "automl-nlp-text"]

NbConnections == [folder |-> <<"resources", "connections">>, name |-> "connections"]

NbDatastore == [folder |-> <<"resources", "datastores">>, name |-> "datastore"]

\* sorted(glob.glob("**/*.ipynb", recursive=True))
notebooks == <<NbAutoml, NbConnections, NbDatastore>>

RECURSIVE JoinWith(_, _)
JoinWith(segments, sep) ==
    IF Len(segments) = 0 THEN ""
    ELSE IF Len(segments) = 1 THEN segments[1]
    ELSE segments[1] \o sep \o JoinWith(Tail(segments), sep)

\* notebook.replace(os.sep, "/")
PosixPath(nb) == JoinWith(nb.folder, "/") \o "/" \o nb.name \o ".ipynb"

\* os.path.dirname(notebook), with "/" for os.sep
FolderOf(nb) == JoinWith(nb.folder, "/")

\* folder.replace(os.sep, "-")
ClassificationOf(nb) == JoinWith(nb.folder, "-")

\* Python's `needle in haystack` on the strings of this tree: equality, or
\* one of the proper substring pairs that occur.
Contained ==
    {<<"datastore", "resources/datastores/datastore.ipynb">>,
     <<"automl", "jobs/automl-nlp">>,
     <<"nlp", "jobs/automl-nlp">>}

StrIn(needle, haystack) == needle = haystack \/ <<needle, haystack>> \in Contained

\* The notebooks that import mlflow (get_mlflow_import reads the file).
ImportsMlflow(nb) == nb = NbAutoml

\* notebooks_config.ini: per section (notebook name) the two options, with
\* the fallbacks of nb_config.get for a section that is not there.
NoSection == [USE_FORECAST_REQUIREMENTS |-> 0, COMPUTE_NAMES |-> ""]

CfgEmpty == [n \in {"automl-nlp-text", "connections", "datastore"} |-> NoSection]

CfgAutoml ==
    [CfgEmpty EXCEPT !["automl-nlp-text"] =
        [USE_FORECAST_REQUIREMENTS |-> 1, COMPUTE_NAMES |-> "cpu-cluster"]]

Configs == {CfgEmpty, CfgAutoml}

---------------------------------------------------------------------------
(* readme.py: rendering one workflow *)

\* int(hashlib.sha512(name.encode()).hexdigest(), 16), reduced modulo
\* 7200000 = 720 * 10^4, which keeps both h % 60 and (h // 60) % 12.
name_hash(name) ==
    CASE name = "automl-nlp-text" -> 3621384
      [] name = "connections" -> 1069122
      [] name = "datastore" -> 2403473

schedule_minute(name) == name_hash(name) % 60

hours_between_runs == 12

\* Faulty variant: the hour taken modulo the 24 hours of a day.
schedule_hour_of_day(name) == (name_hash(name) \div 60) % 24

schedule_hour(name) == (name_hash(name) \div 60) % hours_between_runs

\* The cron line of the schedule block.
CronLine(minute, hour, every) ==
    "    - cron: \"" \o ToString(minute) \o " " \o ToString(hour) \o "/"
        \o ToString(every) \o " * * *\""

get_additional_requirements(req_name, req_path) ==
    <<LF, "    - name: pip install " \o req_name \o " reqs",
      LF, "      run: pip install -r " \o req_path>>

\* The validation steps of the notebook's sidecar JSON, none when there is
\* no such file; connections.json holds one check.
get_validation_yml(nb) ==
    IF nb = NbConnections
    THEN <<LF, "    - name: check notebook output", LF, "      run: python check_notebook_output.py",
           LF, "      working-directory: sdk/python/" \o FolderOf(nb)>>
    ELSE <<>>

get_mlflow_import(nb, validation_yml) ==
    IF validation_yml # <<>> \/ ImportsMlflow(nb)
    THEN get_additional_requirements("mlflow", "sdk/python/mlflow-requirements.txt")
    ELSE <<>>

get_forecast_reqs(name, cfg) ==
    IF cfg[name].USE_FORECAST_REQUIREMENTS # 0
    THEN get_additional_requirements("forecasting", "sdk/python/forecasting-requirements.txt")
    ELSE <<>>

get_spark_config_workflow(folder, name) ==
    <<"    - name: setup spark resources " \o folder \o "/" \o name \o ".ipynb", LF>>

get_featurestore_config_workflow(folder, name) ==
    <<"    - name: setup feature-store resources automation/" \o name \o ".ipynb", LF>>

ScheduleHeader == "  schedule:"

\* Lines 225-227.
ScheduleBlock(name, enable_scheduled_runs) ==
    IF enable_scheduled_runs
    THEN <<ScheduleHeader, LF,
           CronLine(schedule_minute(name), schedule_hour(name), hours_between_runs), LF>>
    ELSE <<>>

\* workflow_yaml as lines 196-338 build it.
RenderWorkflow(nb, name, classification, folder, enable_scheduled_runs, cfg) ==
    LET is_pipeline_notebook ==
            StrIn("jobs-pipelines", classification) \/ StrIn("assets-component", classification)
        is_spark_notebook_sample ==
            StrIn("jobs-spark", classification) \/ StrIn("_spark_", name)
        is_featurestore_sample == StrIn("featurestore_sample", classification)
        forecast_import == get_forecast_reqs(name, cfg)
        validation_yml == get_validation_yml(nb)
        mlflow_import == get_mlflow_import(nb, validation_yml)
    IN  <<"# This code is autogenerated.", LF, LF,
          "name: sdk-" \o classification \o "-" \o name, LF, "on:", LF>>
        \o (IF ENABLE_MANUAL_CALLING THEN <<"  workflow_dispatch:", LF>> ELSE <<>>)
        \o ScheduleBlock(name, enable_scheduled_runs)
        \o <<"  pull_request: branches: - main", LF>>
        \o (IF BRANCH # "main"
            THEN <<"      - " \o BRANCH, LF>>
                 \o (IF is_pipeline_notebook THEN <<"      - pipeline/*", LF>> ELSE <<>>)
            ELSE <<>>)
        \o <<"    paths: - sdk/python/" \o folder \o "/**", LF,
             "jobs: build: steps: pip install -r sdk/python/dev-requirements.txt">>
        \o mlflow_import
        \o forecast_import
        \o <<LF, "    - name: setup-cli", LF>>
        \o (IF is_spark_notebook_sample THEN get_spark_config_workflow(folder, name) ELSE <<>>)
        \o (IF is_featurestore_sample
            THEN get_featurestore_config_workflow(folder, name) ELSE <<>>)
        \o <<"    - name: run " \o PosixPath(nb)>>
        \o (IF name = "debug-online-endpoints-locally-in-visual-studio-code"
            THEN <<LF, "          sed -i -e s/<ENDPOINT_NAME>/localendpoint/g", LF>>
            ELSE <<>>)
        \o (IF ~StrIn("automl", folder)
            THEN <<LF, "          papermill -k python " \o name \o ".ipynb">>
            ELSE IF StrIn("nlp", folder) \/ StrIn("image", folder)
                 THEN <<LF, "          papermill -k python -p compute_name automl-gpu-cluster "
                            \o name \o ".ipynb">>
            ELSE <<LF, "          papermill -k python -p compute_name automl-cpu-cluster "
                       \o name \o ".ipynb">>)
        \o (IF name = "connections" THEN <<LF, "      env: ACR_USERNAME ...">> ELSE <<>>)
        \o validation_yml
        \o <<LF, "    - name: upload notebook's working folder as an artifact", LF>>
        \o (IF cfg[name].COMPUTE_NAMES # ""
            THEN <<LF, "    - name: Remove the compute " \o cfg[name].COMPUTE_NAMES, LF>>
            ELSE <<>>)

\* Lines 340-342.
WorkflowFile(classification, name) == "sdk-" \o classification \o "-" \o name \o ".yml"

WorkflowFiles == {WorkflowFile(ClassificationOf(notebooks[i]), notebooks[i].name) :
                    i \in 1..Len(notebooks)}

\* Lines 343-346: the file's text, "" when there is no such file.
WorkflowBefore(file) == IF file.exists THEN TextRead(file.bytes) ELSE <<>>

\* Line 348.
NeedsWrite(workflow_yaml, workflow_before) == workflow_yaml # workflow_before

NoCall == [file |-> "", name |-> "", enable |-> FALSE, yaml |-> <<>>, wrote |-> FALSE]

\* Lines 193-351: render, read the file, and write it when the text differs.
write_notebook_workflow(nb, name, classification, folder, enable_scheduled_runs, cfg) ==
    LET workflow_yaml ==
            RenderWorkflow(nb, name, classification, folder, enable_scheduled_runs, cfg)
        workflow_file == WorkflowFile(classification, name)
        workflow_before == WorkflowBefore(files[workflow_file])
        write == NeedsWrite(workflow_yaml, workflow_before)
    IN  /\ files' = IF write
                    THEN [files EXCEPT ![workflow_file] =
                             OnDisk(TextWrite(workflow_yaml, platform))]
                    ELSE files
        /\ lastWrite' = [file |-> workflow_file, name |-> name,
                         enable |-> enable_scheduled_runs, yaml |-> workflow_yaml,
                         wrote |-> write]

---------------------------------------------------------------------------
(* readme.py: the run *)

InitReadme ==
    /\ platform \in {"posix", "nt"}
    /\ nb_config = CfgEmpty
    /\ files = [f \in WorkflowFiles |-> Missing]
    /\ wfNext = 0
    /\ lastWrite = NoCall

\* main() starts and write_workflows reads notebooks_config.ini (lines 56-80).
main_start ==
    /\ wfNext = 0
    /\ \E cfg \in Configs : nb_config' = cfg
    /\ wfNext' = 1
    /\ UNCHANGED <<platform, files, lastWrite>>
    /\ UNCHANGED <<scoringVars, tableVars>>

\* One turn of the loop of write_workflows (lines 81-96): a notebook that is
\* not excluded from testing gets its workflow written.
write_workflows ==
    /\ wfNext \in 1..Len(notebooks)
    /\ LET notebook == notebooks[wfNext]
           notebook_path == PosixPath(notebook)
       IN  IF ~\E excluded \in NOT_TESTED_NOTEBOOKS : StrIn(excluded, notebook_path)
           THEN LET name == notebook.name
                    folder == FolderOf(notebook)
                    classification == ClassificationOf(notebook)
                    enable_scheduled_runs ==
                        ~\E excluded \in NOT_SCHEDULED_NOTEBOOKS : StrIn(excluded, notebook_path)
                IN  write_notebook_workflow(notebook, name, classification, folder,
                                            enable_scheduled_runs, nb_config)
           ELSE UNCHANGED <<files, lastWrite>>
    /\ wfNext' = IF wfNext = Len(notebooks) THEN 0 ELSE wfNext + 1
    /\ UNCHANGED <<platform, nb_config>>
    /\ UNCHANGED <<scoringVars, tableVars>>

\* write_notebook_workflow applied to one notebook with either value of
\* enable_scheduled_runs.
call_write_notebook_workflow ==
    /\ wfNext = 0
    /\ \E i \in 1..Len(notebooks), enable_scheduled_runs \in BOOLEAN :
          write_notebook_workflow(notebooks[i], notebooks[i].name,
                                  ClassificationOf(notebooks[i]), FolderOf(notebooks[i]),
                                  enable_scheduled_runs, nb_config)
    /\ UNCHANGED <<platform, nb_config, wfNext>>
    /\ UNCHANGED <<scoringVars, tableVars>>

\* Between runs the working tree changes under the script: a workflow file
\* is deleted, edited by hand, or checked out with the other line ending.
tree_changes ==
    /\ wfNext = 0
    /\ \E f \in WorkflowFiles :
          \/ files[f].exists /\ files' = [files EXCEPT ![f] = Missing]
          \/ files' = [files EXCEPT ![f] = OnDisk(<<"# edited by hand", LF>>)]
          \/ /\ files[f].exists
             /\ files' = [files EXCEPT ![f] = OnDisk(TextWrite(TextRead(files[f].bytes), "nt"))]
             /\ files' # files
          \/ /\ files[f].exists
             /\ files' = [files EXCEPT ![f] = OnDisk(TextRead(files[f].bytes))]
             /\ files' # files
    /\ lastWrite' = NoCall
    /\ UNCHANGED <<platform, nb_config, wfNext>>
    /\ UNCHANGED <<scoringVars, tableVars>>

---------------------------------------------------------------------------
(* readme.py: modify_notebooks and write_readme *)

\* What is bound to a local name before its first assignment.
NoValue == "<unbound>"

\* The kernelspec modify_notebooks stores (lines 441-445), by its name.
kernelspec == "python310-sdkv2"

\* A notebook file as open and json.load see it. readable: both succeed.
\* hasMetadata: the document has a "metadata" member. descKind: what its
\* "description" member is: absent, null, a string, an object without a
\* "description" member, or an object with one, whose value is text.
NbFile(readable, hasMetadata, descKind, text, ks) ==
    [readable |-> readable, hasMetadata |-> hasMetadata, descKind |-> descKind,
     text |-> text, kernelspec |-> ks]

\* A file that is missing, not UTF-8 or not JSON.
Unreadable == NbFile(FALSE, FALSE, "absent", "", "")

DescKinds == {"absent", "null", "string", "object_empty", "object"}

\* The description the author of notebook i wrote, where there is one.
AuthoredText(i) == "About " \o notebooks[i].name

\* The contents the file of notebook i may have.
NotebookContents(i) ==
    {Unreadable, NbFile(TRUE, FALSE, "absent", "", "")}
    \cup {NbFile(TRUE, TRUE, k, IF k = "object" THEN AuthoredText(i) ELSE "", "python3")
            : k \in DescKinds}

\* The tree as committed: every notebook carries its description.
NotebooksAsCommitted ==
    [i \in 1..Len(notebooks) |-> NbFile(TRUE, TRUE, "object", AuthoredText(i), "python3")]

\* One turn of the loop of modify_notebooks (lines 449-459) on a file:
\* the exception it raises ("" for none).
ModifyFault(file) ==
    IF ~file.readable THEN "OSError or JSONDecodeError"
    ELSE IF ~file.hasMetadata THEN "KeyError"
    ELSE ""

RECURSIVE FirstFaulty(_, _)
\* The first notebook, from index i on, at which modify_notebooks raises
\* (one past the last notebook when it raises at none).
FirstFaulty(fs, i) ==
    IF i > Len(notebooks) THEN i
    ELSE IF ModifyFault(fs[i]) # "" THEN i
    ELSE FirstFaulty(fs, i + 1)

\* modify_notebooks(notebooks), lines 438-461: every notebook up to the first
\* it cannot load is rewritten with the kernelspec; the exception of that
\* one is not caught, so the later notebooks stay as they were.
modify_notebooks ==
    /\ rd.pc \in {"idle", "done", "raised"}
    /\ LET stop == FirstFaulty(nb_files, 1)
       IN  /\ nb_files' = [i \in 1..Len(notebooks) |->
                             IF i < stop
                             THEN [nb_files[i] EXCEPT !.kernelspec = kernelspec]
                             ELSE nb_files[i]]
           /\ modified' = IF stop > Len(notebooks) THEN "finished"
                          ELSE ModifyFault(nb_files[stop])
    /\ UNCHANGED <<rd, readme>>
    /\ UNCHANGED <<scoringVars, readmeVars>>

\* Between two steps of the script a notebook file is deleted or damaged.
notebook_lost ==
    /\ rd.pc \in {"idle", "done", "raised"}
    /\ \E i \in 1..Len(notebooks) :
          /\ nb_files[i].readable
          /\ nb_files' = [nb_files EXCEPT ![i] = Unreadable]
    /\ UNCHANGED <<modified, rd, readme>>
    /\ UNCHANGED <<scoringVars, readmeVars>>

\* The description write_readme starts from (line 388).
NoDescription == "*no description*"

\* Lines 389-393: the statement of line 391 assigns only when every
\* subscript succeeds; any exception is caught and passed at 392-393.
Line391Assigns(data) == data.hasMetadata /\ data.descKind = "object"

\* Lines 383-396 for one notebook: the value of `description` after the
\* outer try statement, given its value before it. A file that does not
\* load leaves the name as it was: line 388 is not reached.
DescriptionAfterTry(file, before) ==
    IF ~file.readable THEN before
    ELSE IF Line391Assigns(file) THEN file.text
    ELSE NoDescription

\* Lines 398-401: the suffixes of the excluded notebooks.
ExclusionSuffixes(notebook_path) ==
    (IF \E excluded \in NOT_TESTED_NOTEBOOKS : StrIn(excluded, notebook_path)
     THEN " - _This sample is excluded from automated tests_" ELSE "")
    \o
    (IF \E excluded \in NOT_SCHEDULED_NOTEBOOKS : StrIn(excluded, notebook_path)
     THEN " - _This sample is only tested on demand_" ELSE "")

\* The two calls main makes (lines 64-74): every notebook with no pipeline
\* folder, and the notebooks under jobs/pipelines/ with that folder.
NoFolder == ""

PipelineDir == "jobs/pipelines/"

RECURSIVE IndicesUnder(_, _)
\* The indices, from i on, of the notebooks under the given directory
\* (all of them for no directory).
IndicesUnder(dir, i) ==
    IF i > Len(notebooks) THEN <<>>
    ELSE (IF dir = NoFolder \/ FolderOf(notebooks[i]) \o "/" = dir
          THEN <<i>> ELSE <<>>)
         \o IndicesUnder(dir, i + 1)

\* os.path.relpath(notebook, pipeline_folder) for a notebook in that folder.
RelPath(nb, pipeline_folder) ==
    IF pipeline_folder = NoFolder THEN PosixPath(nb) ELSE nb.name \o ".ipynb"

\* What f.read() gives for prefix.md and suffix.md of the folder.
PrefixText(pipeline_folder) == "<" \o pipeline_folder \o "prefix.md>"

SuffixText(pipeline_folder) == "<" \o pipeline_folder \o "suffix.md>"

\* os.path.join(pipeline_folder, "README.md")
ReadmeFile(pipeline_folder) == pipeline_folder \o "README.md"

ReadmeFiles == {ReadmeFile(NoFolder), ReadmeFile(PipelineDir)}

\* Line 374, as the lines of the text.
TableHeader(branch) ==
    <<"Test Status is for branch - **_" \o branch \o "_**", LF,
      "|Area|Sub-Area|Notebook|Description|Status|", LF,
      "|--|--|--|--|--|", LF>>

gh_link == "https://github.com/Azure/azureml-examples/actions/workflows"

\* write_readme_row, lines 426-435.
write_readme_row(branch, notebook, name, classification, area, sub_area, description) ==
    LET nb_name == "[" \o name \o "](" \o notebook \o ")"
        status == "[![" \o name \o "](" \o gh_link \o "/sdk-" \o classification \o "-"
                  \o name \o ".yml/badge.svg?branch=" \o branch \o ")](" \o gh_link
                  \o "/sdk-" \o classification \o "-" \o name \o ".yml)"
    IN  "|" \o area \o "|" \o sub_area \o "|" \o nb_name \o "|" \o description
        \o "|" \o status \o "|"

\* The frame of a write_readme call that has not started.
IdleReadme ==
    [pc |-> "idle", pipeline_folder |-> NoFolder, list |-> <<>>, i |-> 0,
     branch |-> "", description |-> NoValue, notebook_table |-> <<>>, fault |-> ""]

\* write_readme up to the loop (lines 354-374): with an empty BRANCH the
\* function does nothing more.
write_readme_start ==
    /\ rd.pc \in {"idle", "done", "raised"}
    /\ \E pipeline_folder \in {NoFolder, PipelineDir} :
          rd' = IF BRANCH = ""
                THEN [IdleReadme EXCEPT !.pc = "done", !.pipeline_folder = pipeline_folder,
                                        !.branch = "main"]
                ELSE [IdleReadme EXCEPT
                        !.pc = "loop",
                        !.pipeline_folder = pipeline_folder,
                        !.list = IndicesUnder(pipeline_folder, 1),
                        !.branch = BRANCH,
                        !.notebook_table = TableHeader(BRANCH)]
    /\ UNCHANGED <<nb_files, modified, readme>>
    /\ UNCHANGED <<scoringVars, readmeVars>>

\* One turn of the loop of write_readme (lines 375-418). `description` is
\* a local of the function and not of the turn: a turn whose notebook does
\* not load reads the value the turn before left, and raises
\* UnboundLocalError at line 399 or 415 when no turn has assigned it.
write_readme_turn ==
    /\ rd.pc = "loop"
    /\ rd.i < Len(rd.list)
    /\ LET notebook == notebooks[rd.list[rd.i + 1]]
           file == nb_files[rd.list[rd.i + 1]]
           name == notebook.name
           area == notebook.folder[1]
           sub_area == notebook.folder[2]
           classification == ClassificationOf(notebook)
           afterTry == DescriptionAfterTry(file, rd.description)
           description == afterTry \o ExclusionSuffixes(PosixPath(notebook))
           row == write_readme_row(rd.branch, RelPath(notebook, rd.pipeline_folder),
                                   name, classification, area, sub_area, description)
       IN  rd' = IF afterTry = NoValue
                 THEN [rd EXCEPT !.pc = "raised", !.fault = "UnboundLocalError"]
                 ELSE [rd EXCEPT !.i = rd.i + 1,
                                 !.description = description,
                                 !.notebook_table = rd.notebook_table \o <<row, LF>>]
    /\ UNCHANGED <<nb_files, modified, readme>>
    /\ UNCHANGED <<scoringVars, readmeVars>>

\* After the loop (lines 420-423): README.md is written.
write_readme_finish ==
    /\ rd.pc = "loop"
    /\ rd.i = Len(rd.list)
    /\ readme' = [readme EXCEPT ![ReadmeFile(rd.pipeline_folder)] =
                    OnDisk(TextWrite(<<PrefixText(rd.pipeline_folder)>> \o rd.notebook_table
                                     \o <<SuffixText(rd.pipeline_folder)>>, platform))]
    /\ rd' = [rd EXCEPT !.pc = "done"]
    /\ UNCHANGED <<nb_files, modified>>
    /\ UNCHANGED <<scoringVars, readmeVars>>

\* Before the first call: no README written, nothing modified.
InitWriteReadme ==
    /\ modified = "not called"
    /\ rd = IdleReadme
    /\ readme = [f \in ReadmeFiles |-> Missing]

---------------------------------------------------------------------------
(* Specifications *)

\* The scoring handler never looks at the generator's state: one platform.
Init ==
    /\ InitScoring /\ InitReadme /\ platform = "posix"
    /\ InitWriteReadme /\ nb_files = NotebooksAsCommitted

InitGenerator ==
    /\ InitScoring /\ InitReadme
    /\ InitWriteReadme /\ nb_files = NotebooksAsCommitted

\* The README generator starts on any tree.
InitTable ==
    /\ InitScoring /\ InitReadme
    /\ InitWriteReadme
    /\ nb_files \in {fs \in [1..Len(notebooks) -> UNION {NotebookContents(i) : i \in 1..Len(notebooks)}] :
                        \A i \in 1..Len(notebooks) : fs[i] \in NotebookContents(i)}

Next ==
    \/ init_load_model
    \/ init_resolve_spec
    \/ init_online_lookup
    \/ init_sleep
    \/ init_complete
    \/ \E r \in Reqs : run_parse(r)
    \/ \E r \in Reqs : run_lookup(r)
    \/ \E r \in Reqs : run_predict(r)
    \/ \E r \in Reqs : run_return(r)

\* The scoring handler.
Spec == Init /\ [][Next]_vars

NextReadme ==
    \/ main_start
    \/ write_workflows
    \/ call_write_notebook_workflow
    \/ tree_changes

\* The workflow generator.
SpecReadme == InitGenerator /\ [][NextReadme]_vars

NextTable ==
    \/ modify_notebooks
    \/ notebook_lost
    \/ write_readme_start
    \/ write_readme_turn
    \/ write_readme_finish

\* The README generator.
SpecTable == InitTable /\ [][NextTable]_vars

---------------------------------------------------------------------------
(* Properties of the scoring handler, checked under Spec *)

\* The array that run() computes from a request and the two globals it read.
OwnArray(c) ==
    ToNumpy(DropColumn(get_online_features(c.spec, DataFrame(JsonData(c.raw_data))),
                       "accountID"))

\* C1: run() returns a prediction only if init() has bound both the global
\* model and the global feature spec (the spec is bound only after the
\* model); while the feature spec is unbound - init() never called, or failed
\* after loading the model - no run() gets past the feature lookup: it makes
\* no lookup and no prediction, returns nothing, and ends in NameError.
C1_PredictionOnlyAfterInit ==
    /\ features # Unbound => model # Unbound
    /\ \A r \in Reqs :
          LET c == calls[r]
          IN  /\ (c.pc \in {"return", "done"} \/ c.result # <<>>)
                    => (model # Unbound /\ features # Unbound)
              /\ features = Unbound
                    => /\ c.pc \in {"idle", "lookup", "failed"}
                       /\ c.lookups = 0 /\ c.predicts = 0 /\ c.result = <<>>
                       /\ (c.pc = "failed" /\ c.at \notin {"json", "frame"})
                             => (c.at = "lookup" /\ c.fault = "NameError")
              /\ c.fault = "NameError" => (c.pc = "failed" /\ c.result = <<>>)

\* C1 witness: init() loaded the model and failed before the feature spec was
\* resolved, and a run() issued then has failed with NameError.
C1_Witness ==
    /\ initPc = "failed" /\ model # Unbound /\ features = Unbound
    /\ \E r \in Reqs : calls[r].pc = "failed" /\ calls[r].fault = "NameError"

\* C2: whenever model.predict has been called, the array it was given has no
\* accountID column, and it has one column fewer than the joined frame.
C2_AccountIdNeverPredicted ==
    \A r \in Reqs :
        LET c == calls[r]
        IN  c.predicts > 0 =>
              /\ ~HasColumn(c.dataCols, "accountID")
              /\ HasColumn(c.df.cols, "accountID")
              /\ Len(c.dataCols) = Len(c.df.cols) - 1
              /\ \A i \in 1..Len(c.data) : Len(c.data[i]) = Len(c.df.cols) - 1

\* C2 witness: predict was called for an observation whose accountID is not
\* its first field.
C2_Witness ==
    \E r \in Reqs : calls[r].predicts = 1 /\ calls[r].raw_data = ReqWide

\* A request of the documented format: a JSON object whose data field holds
\* exactly one observation, which carries an accountID.
WellFormed(raw) ==
    /\ raw.syntax = "object"
    /\ HasKey(raw.members, "data")
    /\ NumObs(raw) = 1
    /\ HasKey(JsonData(raw).items[1], "accountID")

\* The observation has, with the joined feature columns, as many numeric
\* fields as the classifier was fitted on.
FitsClassifier(m, spec, raw) ==
    LET o == JsonData(raw).items[1]
        fields == {i \in 1..Len(o) : o[i][1] # "accountID"}
    IN  /\ Cardinality(fields) + Len(FeatureColumns(spec)) = NFeatures(m)
        /\ \A i \in fields : Numeric(o[i][2])

\* The feature store knows the account of the observation.
Resolvable(raw) ==
    \A j \in 1..Len(FeatureColumns("spec_a")) :
        FeatureValue(LastValue(JsonData(raw).items[1], "accountID"),
                     FeatureColumns("spec_a")[j]) # "NaN"

\* C3: a run() that returns, returns a list with one entry per observation of
\* the request's data field; and a well-formed request with a resolvable
\* account fails only in the lookup step (spec unbound, or the service
\* fails) or where the observation does not fit the deployed classifier.
C3_OneLabelPerObservation ==
    \A r \in Reqs :
        LET c == calls[r]
        IN  /\ c.pc = "done" => Len(c.result) = NumObs(c.raw_data)
            /\ (c.pc = "failed" /\ WellFormed(c.raw_data) /\ Resolvable(c.raw_data))
                  => \/ c.at = "lookup"
                     \/ c.at = "predict" /\ ~FitsClassifier(c.clf, c.spec, c.raw_data)

\* C3 witness: a well-formed request was resolved and answered with one label.
C3_Witness ==
    \E r \in Reqs :
        /\ calls[r].pc = "done" /\ WellFormed(calls[r].raw_data)
        /\ Resolvable(calls[r].raw_data)
        /\ calls[r].lookups = 1 /\ Len(calls[r].result) = 1

\* A body that is valid JSON, an object, and has no data key.
NoDataKey(raw) == raw.syntax = "object" /\ ~HasKey(raw.members, "data")

C4_Failed ==
    \A r \in Reqs :
        LET c == calls[r]
        IN  (c.pc # "idle" /\ NoDataKey(c.raw_data))
              => /\ c.pc = "failed" /\ c.at = "json" /\ c.fault = "KeyError"
                 /\ c.result = <<>> /\ c.lookups = 0 /\ c.predicts = 0
                 /\ c.obs = NoFrame /\ c.df = NoFrame

C4_GlobalsKept ==
    \A r \in Reqs :
        (calls'[r] # calls[r] /\ NoDataKey(calls'[r].raw_data))
            => (model' = model /\ features' = features)

\* C4: a run() on a JSON body without a data key ends in KeyError at the
\* parsing step, returns nothing, calls neither the feature lookup nor
\* predict, and its steps leave the global model and feature spec as they are.
C4_MissingDataKeyFails == []C4_Failed /\ [][C4_GlobalsKept]_vars

\* C4 witness: after a completed init(), a request without data has failed.
C4_Witness ==
    /\ initPc = "done"
    /\ \E r \in Reqs : calls[r].pc = "failed" /\ NoDataKey(calls[r].raw_data)

C5_Propagated ==
    \A r \in Reqs :
        LET c == calls[r]
        IN  /\ c.lookups <= 1 /\ c.predicts <= 1
            /\ c.pc = "failed" =>
                  /\ c.result = <<>> /\ c.fault # ""
                  /\ c.at \in {"json", "frame"}
                        => (c.lookups = 0 /\ c.predicts = 0 /\ c.df = NoFrame)
                  /\ c.at = "lookup" => (c.predicts = 0 /\ c.df = NoFrame /\ c.data = <<>>)
                  /\ c.at = "drop" => (c.lookups = 1 /\ c.predicts = 0)
                  /\ c.at = "predict" => c.lookups = 1

C5_FailedIsFinal == \A r \in Reqs : calls[r].pc = "failed" => calls'[r] = calls[r]

\* C5: a fault at any step of run() ends the call there: nothing is returned,
\* no later step has run or runs afterwards, and get_online_features and
\* model.predict are each called at most once per request.
C5_FaultEndsRequest == []C5_Propagated /\ [][C5_FailedIsFinal]_vars

\* C5 witness: one request failed in the feature lookup, called once, and
\* another in predict, called once.
C5_Witness ==
    /\ \E r \in Reqs :
          calls[r].pc = "failed" /\ calls[r].fault = "LookupError" /\ calls[r].lookups = 1
    /\ \E r \in Reqs :
          calls[r].pc = "failed" /\ calls[r].at = "predict" /\ calls[r].predicts = 1

C6_OwnResult ==
    /\ initPc = "done" => (model \in ModelValues /\ features \in SpecValues)
    /\ \A r \in Reqs :
          LET c == calls[r]
          IN  c.pc \in {"return", "done"}
                => /\ c.spec \in SpecValues /\ c.clf \in ModelValues
                   /\ c.data = OwnArray(c)
                   /\ c.result = ToList(Predict(c.clf, OwnArray(c)))

C6_RunWritesNoGlobal == calls' # calls => (model' = model /\ features' = features)

\* C6: no step of run() writes the global model or feature spec, however the
\* calls interleave, and what a run() returns is determined by its own
\* request and the model and feature spec it read, whatever the other calls
\* in flight hold.
C6_ReadOnlyGlobals == []C6_OwnResult /\ [][C6_RunWritesNoGlobal]_vars

\* C6 witness: after a completed init(), two calls on different requests are
\* in flight at once, one holding its prediction, the other its joined frame.
C6_Witness ==
    /\ initPc = "done"
    /\ \E r, q \in Reqs :
          /\ calls[r].pc = "return" /\ calls[q].pc = "predict"
          /\ calls[r].raw_data # calls[q].raw_data

InitOrder == <<"load_model", "resolve_spec", "init_online_lookup", "sleep", "init_complete">>

IsPrefix(s, t) == Len(s) <= Len(t) /\ s = SubSeq(t, 1, Len(s))

\* C8: the steps of an init() call are a prefix of: model load, spec
\* resolution, lookup registration, delay, 'Init complete' (so the delay
\* comes once, after the registration and before the trace), an init() that
\* completed has performed all five, and only init() ever sleeps.
C8_DelayOnlyInInit ==
    /\ IsPrefix(initTrace, InitOrder)
    /\ initPc = "done" => initTrace = InitOrder
    /\ initPc = "log" => initTrace = SubSeq(InitOrder, 1, 4)
    /\ delayedBy \subseteq {"init"}
    /\ "init" \in delayedBy => lookupRegistered

\* C8 witness: init() has completed and a request has been served since.
C8_Witness ==
    /\ initPc = "done" /\ delayedBy = {"init"}
    /\ \E r \in Reqs : calls[r].pc = "done"

\* The row without its k-th value.
RemoveAt(row, k) == SubSeq(row, 1, k - 1) \o SubSeq(row, k + 1, Len(row))

\* C9: the array given to model.predict holds, row by row, the values of the
\* joined frame in the joined order without the accountID value (the request
\* {accountID: A1, transactionAmount: 42.0} joined with avg_amount_7d 10.5
\* gives [42.0, 10.5]), and run() returns the classifier's predictions on it
\* as a list.
C9_ClassifierInput ==
    \A r \in Reqs :
        LET c == calls[r]
        IN  /\ c.predicts > 0 =>
                  /\ Len(c.data) = Len(c.df.rows)
                  /\ \A i \in 1..Len(c.data) :
                        c.data[i] = RemoveAt(c.df.rows[i], ColumnIndex(c.df.cols, "accountID"))
                  /\ c.raw_data = ReqExample => c.data = << <<"42.0", "10.5">> >>
            /\ c.pc = "done" =>
                  /\ c.result = [i \in 1..Len(c.data) |-> PredictLabel(c.clf, c.data[i])]
                  /\ c.result \in {<<0>>, <<1>>}

\* C9 witness: the example request was answered from the row [42.0, 10.5].
C9_Witness ==
    \E r \in Reqs :
        /\ calls[r].pc = "done" /\ calls[r].raw_data = ReqExample
        /\ calls[r].data = << <<"42.0", "10.5">> >> /\ Len(calls[r].result) = 1

---------------------------------------------------------------------------
(* Properties of the workflow generator, checked under SpecReadme *)

\* The text of a file, line ends normalised: its bytes without the CRs.
IsNotCR(t) == t # CR

FileText(file) == IF file.exists THEN SelectSeq(file.bytes, IsNotCR) ELSE <<>>

C7_AfterCall ==
    lastWrite # NoCall =>
        /\ FileText(files[lastWrite.file]) = lastWrite.yaml
        /\ ~NeedsWrite(lastWrite.yaml, WorkflowBefore(files[lastWrite.file]))

C7_WriteIffChanged ==
    (lastWrite' # NoCall /\ (lastWrite' # lastWrite \/ files' # files)) =>
        LET f == lastWrite'.file
        IN  /\ lastWrite'.wrote <=> (lastWrite'.yaml # FileText(files[f]))
            /\ lastWrite'.wrote <=> (files'[f] # files[f])
            /\ \A g \in WorkflowFiles \ {f} : files'[g] = files[g]

\* C7: a call of write_notebook_workflow writes the workflow file if and only
\* if the rendered YAML differs from the file's text (as read, line ends
\* normalised; no text for a missing file) and touches no other file; after
\* the call the file's text is the rendered YAML, and the same call again
\* would not write.
C7_WriteOnlyIfChanged == []C7_AfterCall /\ [][C7_WriteIffChanged]_vars

\* C7 witness: on nt, a call found the file, with CR LF line ends on disk,
\* equal to the rendered YAML and did not write.
C7_Witness ==
    /\ platform = "nt" /\ lastWrite # NoCall /\ ~lastWrite.wrote
    /\ files[lastWrite.file].exists
    /\ \E i \in 1..Len(files[lastWrite.file].bytes) : files[lastWrite.file].bytes[i] = CR

\* The cron lines of the notebooks, from sha512 of each name.
ExpectedCron(name) ==
    CASE name = "automl-nlp-text" -> "    - cron: \"24 8/12 * * *\""
      [] name = "connections" -> "    - cron: \"42 10/12 * * *\""
      [] name = "datastore" -> "    - cron: \"53 1/12 * * *\""

\* C10: the workflow rendered for a notebook has a schedule block if and
\* only if scheduled runs are enabled for it, and then its cron line is the
\* one fixed by the notebook's name alone, whatever the configuration, the
\* platform and the files: minute = hash mod 60 in 0..59, starting hour =
\* (hash div 60) mod 12 in 0..11, every 12 hours.
C10_ScheduleFromName ==
    lastWrite # NoCall =>
        LET y == lastWrite.yaml
            minute == name_hash(lastWrite.name) % 60
            hour == (name_hash(lastWrite.name) \div 60) % 12
            at == {i \in 1..Len(y) : y[i] = ScheduleHeader}
        IN  /\ minute \in 0..59 /\ hour \in 0..11
            /\ CronLine(minute, hour, 12) = ExpectedCron(lastWrite.name)
            /\ lastWrite.enable <=> at # {}
            /\ \A i \in at : i + 2 <= Len(y) /\ y[i + 1] = LF
                             /\ y[i + 2] = ExpectedCron(lastWrite.name)
            /\ Cardinality(at) <= 1
            /\ ~lastWrite.enable => \A i \in 1..Len(y) : y[i] # ExpectedCron(lastWrite.name)

\* C10 witness: write_workflows has rendered the schedule of automl-nlp-text
\* under the configuration that names it.
C10_Witness ==
    /\ lastWrite # NoCall /\ lastWrite.enable /\ lastWrite.name = "automl-nlp-text"
    /\ nb_config = CfgAutoml /\ wfNext = 2

---------------------------------------------------------------------------
(* Properties of the README generator, checked under SpecTable *)

\* The row the running write_readme call appended for the k-th notebook of
\* its list (the table starts with the three lines of its header).
RowOf(k) == rd.notebook_table[Len(TableHeader(rd.branch)) + 2 * k - 1]

\* The row of notebook i that carries the description d.
RowWith(i, d) ==
    write_readme_row(rd.branch, RelPath(notebooks[i], rd.pipeline_folder),
                     notebooks[i].name, ClassificationOf(notebooks[i]),
                     notebooks[i].folder[1], notebooks[i].folder[2],
                     d \o ExclusionSuffixes(PosixPath(notebooks[i])))

\* The descriptions the metadata of a notebook file carries: the text of
\* metadata.description.description where the file holds one.
MetadataDescriptions(file) ==
    IF file.readable /\ file.hasMetadata /\ file.descKind = "object"
    THEN {file.text} ELSE {}

\* While the loop runs (the files do not change under it), every row
\* written so far carries its own notebook's description or the default.
C11_RowsOwn ==
    rd.pc = "loop" =>
        \A k \in 1..rd.i :
            \E d \in MetadataDescriptions(nb_files[rd.list[k]]) \cup {NoDescription} :
                RowOf(k) = RowWith(rd.list[k], d)

\* No write_readme call ends with an exception.
C11_NeverFails == rd.pc # "raised"

\* C11: in write_readme every notebook's row carries the description of that
\* notebook's own metadata or the default '*no description*' (plus the
\* exclusion suffixes), and a notebook that cannot be read or parsed neither
\* makes the run fail nor gets the description of a notebook before it.
C11_RowDescribesOwnNotebook == C11_RowsOwn /\ C11_NeverFails

\* C11, what the code does keep: the row of a notebook that loads carries
\* that notebook's description or the default, and a call raises only
\* while no notebook of its list has loaded.
C11_LoadedRowsOwn ==
    /\ rd.pc = "loop" =>
          \A k \in 1..rd.i :
              nb_files[rd.list[k]].readable =>
                  \E d \in MetadataDescriptions(nb_files[rd.list[k]]) \cup {NoDescription} :
                      RowOf(k) = RowWith(rd.list[k], d)
    /\ rd.pc = "raised" =>
          /\ rd.fault = "UnboundLocalError"
          /\ rd.description = NoValue
          /\ rd.i = 0

\* C11: modify_notebooks has finished, a notebook has then become
\* unreadable, and write_readme has written its row with the description of
\* the notebook before it.
C11_StaleDescription ==
    /\ modified = "finished"
    /\ rd.pc = "loop"
    /\ \E k \in 2..rd.i :
          /\ ~nb_files[rd.list[k]].readable
          /\ nb_files[rd.list[k - 1]].readable
          /\ RowOf(k) = RowWith(rd.list[k], AuthoredText(rd.list[k - 1]))

\* The first notebook of the list does not load and the call raises.
C11_RunFails ==
    /\ rd.pc = "raised"
    /\ ~nb_files[rd.list[1]].readable

====
